---- MODULE Spec2Model ----
(***************************************************************************)
(* Model of the dialogue-analysis client (src/src/models/*.py) and of the  *)
(* alignment statistics (src/src/alignment_stats_full.py).                 *)
(*                                                                         *)
(* A text is a finite sequence of lexemes (Tok).  Every lexeme stands for  *)
(* a fixed piece of character text; the regular expressions, find/rfind,   *)
(* strip and json.loads of the source are computed on those sequences.     *)
(***************************************************************************)
EXTENDS Integers, Sequences, FiniteSets, TLC

\* ------------------------------------------------------------------ bounds
MaxChunks == 3        \* a raw text is built from at most MaxChunks chunks
MaxCalls == 2         \* analyze calls per behaviour
TicksPerSecond == 2   \* clock readings per second (the real clock has 10^6)
MaxRecords == 3       \* records handed to calculate_alignment_stats_full

\* ------------------------------------------------------------------ texts
SchemaOpen == "<schema>"
SchemaClose == "</schema>"
FenceOpen == "FENCE_JSON"    \* three backticks followed by json
FenceClose == "FENCE"        \* three backticks
Ws == " "

\* "{a}" and "{b}" are two different JSON objects, "str" a JSON string
\* literal, "w" a word of prose (not JSON), " " a run of whitespace.
Tok == {SchemaOpen, SchemaClose, FenceOpen, FenceClose, "[", "]", ",",
        "{a}", "{b}", "str", "w", Ws}

ArrA == <<"[", "{a}", "]">>
ArrB == <<"[", "{b}", "]">>
TaggedA == <<SchemaOpen>> \o ArrA \o <<SchemaClose>>
TaggedBad == <<SchemaOpen, "w", SchemaClose>>
FencedB == <<FenceOpen, Ws>> \o ArrB \o <<Ws, FenceClose>>
FencedBad == <<FenceOpen, "w", FenceClose>>

Chunks == {<<t>> : t \in Tok} \cup {ArrA, ArrB, TaggedA, TaggedBad, FencedB, FencedBad}

RECURSIVE TextsUpTo(_)
TextsUpTo(n) ==
    IF n = 0 THEN {<< >>}
    ELSE LET shorter == TextsUpTo(n - 1)
         IN  shorter \cup {s \o c : s \in shorter, c \in Chunks}

Texts == TextsUpTo(MaxChunks)

\* ------------------------------------------------------- string primitives
\* str.strip(): drop leading and trailing whitespace
RECURSIVE lstrip(_)
lstrip(s) == IF s # << >> /\ Head(s) = Ws THEN lstrip(Tail(s)) ELSE s

RECURSIVE rstrip(_)
rstrip(s) ==
    IF s # << >> /\ s[Len(s)] = Ws THEN rstrip(SubSeq(s, 1, Len(s) - 1)) ELSE s

strip(s) == rstrip(lstrip(s))

\* Positions are 1-based; 0 plays the part of -1 of Python (not found).
Positions(s, toks) == {i \in 1..Len(s) : s[i] \in toks}
Least(S) == CHOOSE i \in S : \A j \in S : i <= j
Greatest(S) == CHOOSE i \in S : \A j \in S : j <= i

find(s, t) == IF Positions(s, {t}) = {} THEN 0 ELSE Least(Positions(s, {t}))
rfind(s, t) == IF Positions(s, {t}) = {} THEN 0 ELSE Greatest(Positions(s, {t}))

\* re.search(open \s*([\s\S]*?)\s* close): the leftmost opener that has a
\* closer behind it, the nearest such closer, and group(1) between them.  The
\* closers are given as a set because the three backticks that close a
\* fence are also the first three characters of an opening json fence.
NoMatch == [found |-> FALSE, group |-> << >>]

re_search(s, open, closers) ==
    LET i == find(s, open)
        after == {j \in Positions(s, closers) : j > i}
    IN  IF i = 0 \/ after = {} THEN NoMatch
        ELSE [found |-> TRUE, group |-> strip(SubSeq(s, i + 1, Least(after) - 1))]

schema_search(s) == re_search(s, SchemaOpen, {SchemaClose})
\* variant: a greedy group, up to the last closing fence
json_fence_search_greedy(s) ==
    LET i == find(s, FenceOpen)
        after == {j \in Positions(s, {FenceClose, FenceOpen}) : j > i}
    IN  IF i = 0 \/ after = {} THEN NoMatch
        ELSE [found |-> TRUE, group |-> strip(SubSeq(s, i + 1, Greatest(after) - 1))]

json_fence_search(s) == re_search(s, FenceOpen, {FenceClose, FenceOpen})

\* ---------------------------------------------------------------- json.loads
NoWs(s) == SelectSeq(s, LAMBDA t : t # Ws)
Atoms == {"{a}", "{b}", "str"}
\* An object with one string-valued key is written as the lexeme that opens
\* it up to the opening quote of the value, the lexemes of the string's
\* characters, and the lexeme of the closing quote and brace.
StrObjOpen == "{note:<"
StrObjClose == ">}"

\* ParseValue(s, i): the position right after the JSON value that starts at
\* position i of s, or 0 when no value starts there.
RECURSIVE ParseValue(_, _), ParseElems(_, _)
ParseValue(s, i) ==
    IF i > Len(s) THEN 0
    ELSE IF s[i] \in Atoms THEN i + 1
    ELSE IF s[i] = StrObjOpen THEN
        LET closing == {j \in (i + 1)..Len(s) : s[j] = StrObjClose}
        IN  IF closing = {} THEN 0 ELSE Least(closing) + 1
    ELSE IF s[i] = "[" THEN
        IF i + 1 > Len(s) THEN 0
        ELSE IF s[i + 1] = "]" THEN i + 2
        ELSE ParseElems(s, i + 1)
    ELSE 0

ParseElems(s, i) ==
    LET j == ParseValue(s, i)
    IN  IF j = 0 \/ j > Len(s) THEN 0
        ELSE IF s[j] = "]" THEN j + 1
        ELSE IF s[j] = "," THEN ParseElems(s, j + 1)
        ELSE 0

\* json.loads(text): the parsed value (its canonical lexemes) or a decode error
json_loads(s) ==
    LET t == NoWs(s)
    IN  IF t # << >> /\ ParseValue(t, 1) = Len(t) + 1
        THEN [ok |-> TRUE, isList |-> t[1] = "[", value |-> t]
        ELSE [ok |-> FALSE, isList |-> FALSE, value |-> << >>]

\* ------------------------------------------------- results of an analysis
\* What analyze returns is a list: either the parsed array (kind "list",
\* items = its lexemes) or a list holding one error record (kind "error").
\* raw_response is the raw text, None, or the text of an exception.
RawText(t) == [tag |-> "text", text |-> t]
RawNone == [tag |-> "None", text |-> << >>]
RawException == [tag |-> "exception", text |-> << >>]

ParsedList(v) == [kind |-> "list", items |-> v, error |-> "", raw_response |-> RawNone]
ErrorRecord(e, r) == [kind |-> "error", items |-> << >>, error |-> e, raw_response |-> r]
Raised(e) == [kind |-> "raise", items |-> << >>, error |-> e, raw_response |-> RawNone]
NoResult == [kind |-> "none", items |-> << >>, error |-> "", raw_response |-> RawNone]

ErrNotArray == "LLM response is not a JSON array"
ErrParse == "Failed to parse JSON response"
ErrApi == "API call failed"

\* -------------------------------------------------------- RawOutputArchiver
\* strftime("%Y%m%d_%H%M%S") keeps whole seconds of the clock reading
strftime(t) == t \div TicksPerSecond

\* the file _save_raw_output writes for a model at a clock reading
archive_filename(model, t) == <<model, strftime(t)>>

\* _save_raw_output: open/write is inside try ... except Exception, so an I/O
\* failure is logged and the method returns normally in both cases.
save_raw_output_uncaught(ioOK) == IF ioOK THEN "saved" ELSE "raised"
save_raw_output(ioOK) == IF ioOK THEN "saved" ELSE "logged"

\* the file system after _save_raw_output (mode 'w' truncates an old file)
write_file(fs, name, text, ioOK) ==
    IF ioOK THEN [f \in DOMAIN fs \cup {name} |-> IF f = name THEN text ELSE fs[f]]
    ELSE fs

\* ------------------------------------------------ StructuredOutputExtractor
\* variant: the slice stops before the last bracket
bracket_slice_exclusive(s) ==
    LET first_brace == find(s, "[")
        last_brace == rfind(s, "]")
    IN  IF first_brace # 0 /\ last_brace # 0 /\ last_brace > first_brace
        THEN SubSeq(s, first_brace, last_brace - 1)
        ELSE s

\* the array slice tried when no marker was found
bracket_slice(s) ==
    LET first_brace == find(s, "[")
        last_brace == rfind(s, "]")
    IN  IF first_brace # 0 /\ last_brace # 0 /\ last_brace > first_brace
        THEN SubSeq(s, first_brace, last_brace)
        ELSE s

\* variant: a marked candidate that is not a JSON array is given up for the
\* next strategy
extract_json_first_that_parses(response_text) ==
    LET is_array(c) == json_loads(c).ok /\ json_loads(c).isList
    IN  IF schema_search(response_text).found /\ is_array(schema_search(response_text).group)
        THEN schema_search(response_text).group
        ELSE IF json_fence_search(response_text).found
                /\ is_array(json_fence_search(response_text).group)
        THEN json_fence_search(response_text).group
        ELSE bracket_slice(strip(response_text))

\* BaseDialogueAnalyzer._extract_json_from_response
extract_json_from_response(response_text) ==
    IF schema_search(response_text).found THEN schema_search(response_text).group
    ELSE IF json_fence_search(response_text).found THEN json_fence_search(response_text).group
    ELSE bracket_slice(strip(response_text))

\* json.loads + isinstance(list) + except JSONDecodeError, as written three
\* times in the source; raw is what the error record carries.
parse_candidate_keep_candidate(json_string, raw) ==
    LET r == json_loads(json_string)
    IN  IF r.ok /\ r.isList THEN ParsedList(r.value)
        ELSE IF r.ok THEN ErrorRecord(ErrNotArray, RawText(json_string))
        ELSE ErrorRecord(ErrParse, RawText(json_string))

parse_candidate(json_string, raw) ==
    LET r == json_loads(json_string)
    IN  IF r.ok /\ r.isList THEN ParsedList(r.value)
        ELSE IF r.ok THEN ErrorRecord(ErrNotArray, RawText(raw))
        ELSE ErrorRecord(ErrParse, RawText(raw))

\* BaseDialogueAnalyzer._process_response: archive, extract, parse
process_response(response_text, ioOK) ==
    IF save_raw_output(ioOK) = "raised" THEN Raised("OSError")
    ELSE parse_candidate(extract_json_from_response(response_text), response_text)

\* The extraction written inline in GeminiDialogueAnalyzer.analyze_dialogue:
\* strip, json fence, bracket slice, parse.  No schema tags, no archive.
gemini_inline_extract(response_text) ==
    LET stripped == strip(response_text)
        json_match == json_fence_search(stripped)
        json_string == IF json_match.found THEN json_match.group
                       ELSE bracket_slice(stripped)
    IN  parse_candidate(json_string, stripped)

\* The same code in QWENDialogueAnalyzer.analyze_dialogue
qwen_inline_extract(response_text) ==
    LET stripped == strip(response_text)
        json_match == json_fence_search(stripped)
        json_string == IF json_match.found THEN json_match.group
                       ELSE bracket_slice(stripped)
    IN  parse_candidate(json_string, stripped)

\* ------------------------------------------------------------ the adapters
\* "Base" is an adapter that inherits BaseDialogueAnalyzer.analyze_dialogue and
\* implements only _analyze_dialogue, as the base class prescribes.  The other
\* four are the classes of the repository.
Classes == {"Base", "Claude", "DeepSeek", "Gemini", "Qwen"}
ModelNames == {"m1", "m2"}
NoAdapter == [cls |-> "none", model_name |-> ""]

\* The classes derived from BaseDialogueAnalyzer, and those among them that
\* define the abstract method _analyze_dialogue.  A class that leaves it
\* undefined cannot be instantiated: abc raises TypeError before __init__.
DerivesFromBase == {"Base", "Claude", "DeepSeek", "Gemini"}
DefinesAnalyzeHook == {"Base", "Gemini"}

\* BaseDialogueAnalyzer.__init__
base_init(model_name, system_prompt) ==
    IF model_name = "" THEN "ValueError"
    ELSE IF system_prompt = "" THEN "ValueError"
    ELSE "ok"

\* GeminiDialogueAnalyzer.__init__
gemini_init(api_key, model_name, system_prompt, clientOK) ==
    IF base_init(model_name, system_prompt) # "ok" THEN base_init(model_name, system_prompt)
    ELSE IF api_key = "" THEN "ValueError"
    ELSE IF ~clientOK THEN "ConnectionError"
    ELSE "ok"

\* QWENDialogueAnalyzer.__init__
qwen_init(api_key, model_name, system_prompt, clientOK) ==
    IF api_key = "" THEN "ValueError"
    ELSE IF model_name = "" THEN "ValueError"
    ELSE IF system_prompt = "" THEN "ValueError"
    ELSE IF ~clientOK THEN "ConnectionError"
    ELSE "ok"

\* the constructor was given an empty credential, model name or prompt
\* (BaseDialogueAnalyzer.__init__ itself takes no credential)
missing_input(cls, api_key, model_name, system_prompt) ==
    model_name = "" \/ system_prompt = "" \/ (cls # "Base" /\ api_key = "")

\* cls(api_key, model_name, system_prompt): "ok" or the exception raised
construct(cls, api_key, model_name, system_prompt, clientOK) ==
    IF cls \in DerivesFromBase /\ cls \notin DefinesAnalyzeHook THEN "TypeError"
    ELSE IF cls = "Qwen" THEN qwen_init(api_key, model_name, system_prompt, clientOK)
    ELSE IF cls = "Gemini" THEN gemini_init(api_key, model_name, system_prompt, clientOK)
    ELSE base_init(model_name, system_prompt)

\* ------------------------------------------------------------ retry policy
\* variant: three retries after the first attempt
StopAfterAttempt_retries == 1 + 3
StopAfterAttempt == 3
WaitMultiplier == 1
WaitMin == 4
WaitMax == 10

RECURSIVE Pow2(_)
Pow2(n) == IF n = 0 THEN 1 ELSE 2 * Pow2(n - 1)
Min(a, b) == IF a < b THEN a ELSE b
Max(a, b) == IF a > b THEN a ELSE b

\* variant: min taken as the base of the doubling
wait_exponential_from_min(n) == Min(WaitMax, WaitMin * Pow2(n - 1))

\* tenacity.wait_exponential(multiplier, min, max) after attempt number n
wait_exponential(n) == Max(WaitMin, Min(WaitMultiplier * Pow2(n - 1), WaitMax))

\* retry_if_exception_type((ProxyError, ConnectionError, Timeout))
Transient == {"ProxyError", "ConnectionError", "Timeout"}
Permanent == {"AuthError"}
retry_if_exception_type(exc) == exc \in Transient

\* what one backend invocation does: it answers with a text or raises
RespTexts == {ArrA, <<"w">>, <<"str">>, <<Ws>> \o ArrB \o <<Ws>>, TaggedA \o FencedB}
BackendOutcomes ==
    {[exc |-> e, text |-> << >>] : e \in Transient \cup Permanent}
        \cup {[exc |-> "", text |-> t] : t \in RespTexts}

VARIABLES
    adapter,        \* the adapter object in use: [cls, model_name]
    ctorError,      \* outcome of the last construction
    ctorMissing,    \* whether the last construction lacked a required input
    pc,             \* "idle", "backoff", "returned" or "raised"
    attempt,        \* attempt number of the retry wrapper in this call
    outcomes,       \* outcome of each backend invocation of this call
    waits,          \* backoff sleeps of this call, in seconds
    received,       \* raw responses received in this call
    result,         \* what the call returned or raised
    calls,          \* analyze calls started
    now,            \* last clock reading, in ticks
    files,          \* the logs directory: file name -> contents
    archiveLog,     \* every _save_raw_output call: [name, text, ok]
    raw,            \* extraction: the raw text under test
    records,        \* alignment: the input records
    names,          \* alignment: <<human_expert_name, ai_evaluator_name>>
    report,         \* alignment: the value returned
    comparison_fields,  \* alignment: the configured COMPARISON_FIELDS list
    checked,        \* alignment: the last alignment_check call and its value
    prompt          \* the system prompt, the payload and the compiled prompt

vars == <<adapter, ctorError, ctorMissing, pc, attempt, outcomes, waits, received,
          result, calls, now, files, archiveLog, raw, records, names, report,
          comparison_fields, checked, prompt>>

callVars == <<attempt, outcomes, waits, received, result>>
archiveVars == <<now, files, archiveLog>>
alignVars == <<records, names, report, comparison_fields, checked>>

invocations == Len(outcomes)

NoReport == [computed |-> FALSE]
NoCheck == [field |-> "", match |-> FALSE]
NoPrompt == [system_prompt |-> << >>, user_prompt_content |-> << >>,
             compiled |-> FALSE, final_system_prompt |-> << >>]
\* the field keys a record may carry, and the comparison lists configured
AllFields == <<"f1", "f2">>
FieldLists == {<< >>, <<"f1">>, AllFields}

\* ------------------------------------------------------------------ actions
\* Construction of the adapter the run works with (until one succeeds)
Construct ==
    /\ pc = "idle"
    /\ adapter = NoAdapter
    /\ \E cls \in Classes, api_key \in {"", "k"}, model_name \in ModelNames \cup {""},
          system_prompt \in {"", "p"}, clientOK \in BOOLEAN :
        LET outcome == construct(cls, api_key, model_name, system_prompt, clientOK)
        IN  /\ ctorError' = outcome
            /\ ctorMissing' = missing_input(cls, api_key, model_name, system_prompt)
            /\ adapter' = IF outcome = "ok"
                          THEN [cls |-> cls, model_name |-> model_name]
                          ELSE adapter
    /\ UNCHANGED <<pc, callVars, calls, archiveVars, raw, prompt, alignVars>>

\* The except clauses of BaseDialogueAnalyzer.analyze_dialogue: a transport
\* error is re-raised to the retry wrapper, any other exception becomes an
\* error record.
body_outcome_reraise_all(exc) == "raise"
body_outcome(exc) == IF exc \in Transient THEN "raise" ELSE "return_error"

\* What follows a failed invocation in attempt number n: the body returns an
\* error record, or the wrapper sleeps and retries, or (attempts exhausted or
\* exception not retryable, reraise=True) the exception leaves the call.
after_failure_retry_all(exc, n) == IF n < StopAfterAttempt THEN "backoff" ELSE "raised"
after_failure(exc, n) ==
    IF body_outcome(exc) = "return_error" THEN "returned"
    ELSE IF retry_if_exception_type(exc) /\ n < StopAfterAttempt THEN "backoff"
    ELSE "raised"

\* One run of the body of BaseDialogueAnalyzer.analyze_dialogue under the
\* retry wrapper, as attempt number n, after sleeping slept seconds.
BaseAttempt(n, slept) ==
    \E out \in BackendOutcomes, ioOK \in BOOLEAN, d \in {1, TicksPerSecond} :
        LET woke == now + slept * TicksPerSecond
            name == archive_filename(adapter.model_name, woke + d)
            r == process_response(out.text, ioOK)
        IN  /\ attempt' = n
            /\ outcomes' = Append(outcomes, out.exc)
            /\ waits' = IF slept = 0 THEN waits ELSE Append(waits, slept)
            /\ IF out.exc = ""
               THEN /\ received' = Append(received, out.text)
                    /\ now' = woke + d
                    /\ files' = write_file(files, name, out.text, ioOK)
                    /\ archiveLog' = Append(archiveLog,
                          [call |-> calls', name |-> name, text |-> out.text, ok |-> ioOK])
                    /\ result' = IF r.kind = "raise"
                                 THEN ErrorRecord(ErrApi, RawException)
                                 ELSE r
                    /\ pc' = "returned"
               ELSE /\ received' = received
                    /\ now' = woke
                    /\ UNCHANGED <<files, archiveLog>>
                    /\ pc' = after_failure(out.exc, n)
                    /\ result' = CASE pc' = "returned" -> ErrorRecord(ErrApi, RawException)
                                   [] pc' = "raised" -> Raised(out.exc)
                                   [] OTHER -> result

BaseAnalyze ==
    /\ pc = "idle"
    /\ adapter.cls = "Base"
    /\ calls < MaxCalls
    /\ calls' = calls + 1
    /\ BaseAttempt(1, 0)
    /\ UNCHANGED <<adapter, ctorError, ctorMissing, raw, prompt, alignVars>>

BaseRetry ==
    /\ pc = "backoff"
    /\ UNCHANGED <<adapter, ctorError, ctorMissing, calls, raw, prompt, alignVars>>
    /\ BaseAttempt(attempt + 1, wait_exponential(attempt))

\* GeminiDialogueAnalyzer.analyze_dialogue overrides the inherited method:
\* one invocation, no retry wrapper, no archive, every exception caught.
GeminiAnalyze ==
    /\ pc = "idle"
    /\ adapter.cls = "Gemini"
    /\ calls < MaxCalls
    /\ calls' = calls + 1
    /\ \E out \in BackendOutcomes :
        /\ attempt' = 1
        /\ outcomes' = Append(outcomes, out.exc)
        /\ received' = IF out.exc = "" THEN Append(received, out.text) ELSE received
        /\ result' = IF out.exc = "" THEN gemini_inline_extract(out.text)
                     ELSE ErrorRecord(ErrApi, RawNone)
    /\ pc' = "returned"
    /\ UNCHANGED <<adapter, ctorError, ctorMissing, waits, archiveVars, raw, prompt, alignVars>>

\* QWENDialogueAnalyzer.analyze_dialogue: the class stands alone
QwenAnalyze ==
    /\ pc = "idle"
    /\ adapter.cls = "Qwen"
    /\ calls < MaxCalls
    /\ calls' = calls + 1
    /\ \E out \in BackendOutcomes :
        /\ attempt' = 1
        /\ outcomes' = Append(outcomes, out.exc)
        /\ received' = IF out.exc = "" THEN Append(received, out.text) ELSE received
        /\ result' = IF out.exc = "" THEN qwen_inline_extract(out.text)
                     ELSE ErrorRecord(ErrApi, RawNone)
    /\ pc' = "returned"
    /\ UNCHANGED <<adapter, ctorError, ctorMissing, waits, archiveVars, raw, prompt, alignVars>>

\* The caller takes what the call returned or raised; the call is over.
Return ==
    /\ pc \in {"returned", "raised"}
    /\ pc' = "idle"
    /\ attempt' = 0
    /\ outcomes' = << >>
    /\ waits' = << >>
    /\ received' = << >>
    /\ result' = NoResult
    /\ UNCHANGED <<adapter, ctorError, ctorMissing, calls, archiveVars, raw, prompt, alignVars>>

Init ==
    /\ adapter = NoAdapter
    /\ ctorError = ""
    /\ ctorMissing = FALSE
    /\ pc = "idle"
    /\ attempt = 0
    /\ outcomes = << >>
    /\ waits = << >>
    /\ received = << >>
    /\ result = NoResult
    /\ calls = 0
    /\ now = 0
    /\ files = << >>
    /\ archiveLog = << >>
    /\ raw = << >>
    /\ prompt = NoPrompt
    /\ records = << >>
    /\ names = <<"", "">>
    /\ report = NoReport
    /\ comparison_fields = AllFields
    /\ checked = NoCheck

Next ==
    \/ Construct
    \/ BaseAnalyze
    \/ BaseRetry
    \/ GeminiAnalyze
    \/ QwenAnalyze
    \/ Return

Spec == Init /\ [][Next]_vars

\* ----------------------------------------------- extraction on its own
\* A constructed adapter receives the raw text raw from its backend.
ConstructedAdapters == {[cls |-> c, model_name |-> "m1"] : c \in {"Base", "Gemini", "Qwen"}}

InitExtract ==
    /\ raw \in Texts
    /\ prompt = NoPrompt
    /\ adapter \in ConstructedAdapters
    /\ ctorError = "ok"
    /\ ctorMissing = FALSE
    /\ pc = "idle"
    /\ attempt = 0
    /\ outcomes = << >>
    /\ waits = << >>
    /\ received = << >>
    /\ result = NoResult
    /\ calls = 0
    /\ now = 0
    /\ files = << >>
    /\ archiveLog = << >>
    /\ records = << >>
    /\ names = <<"", "">>
    /\ report = NoReport
    /\ comparison_fields = AllFields
    /\ checked = NoCheck

\* BaseDialogueAnalyzer._process_response on raw
ProcessResponse ==
    /\ pc = "idle"
    /\ adapter.cls = "Base"
    /\ \E ioOK \in BOOLEAN, d \in {1, TicksPerSecond} :
        LET name == archive_filename(adapter.model_name, now + d)
        IN  /\ now' = now + d
            /\ files' = write_file(files, name, raw, ioOK)
            /\ archiveLog' = Append(archiveLog,
                  [call |-> calls, name |-> name, text |-> raw, ok |-> ioOK])
            /\ result' = process_response(raw, ioOK)
    /\ received' = Append(received, raw)
    /\ pc' = "returned"
    /\ UNCHANGED <<adapter, ctorError, ctorMissing, attempt, outcomes, waits, calls, raw, prompt, alignVars>>

\* the extraction inside GeminiDialogueAnalyzer.analyze_dialogue on raw
GeminiExtraction ==
    /\ pc = "idle"
    /\ adapter.cls = "Gemini"
    /\ result' = gemini_inline_extract(raw)
    /\ received' = Append(received, raw)
    /\ pc' = "returned"
    /\ UNCHANGED <<adapter, ctorError, ctorMissing, attempt, outcomes, waits, calls, archiveVars,
                   raw, prompt, alignVars>>

\* the extraction inside QWENDialogueAnalyzer.analyze_dialogue on raw
QwenExtraction ==
    /\ pc = "idle"
    /\ adapter.cls = "Qwen"
    /\ result' = qwen_inline_extract(raw)
    /\ received' = Append(received, raw)
    /\ pc' = "returned"
    /\ UNCHANGED <<adapter, ctorError, ctorMissing, attempt, outcomes, waits, calls, archiveVars,
                   raw, prompt, alignVars>>

NextExtract ==
    \/ ProcessResponse
    \/ GeminiExtraction
    \/ QwenExtraction

SpecExtract == InitExtract /\ [][NextExtract]_vars

\* ------------------------------------------- a parsed list fed back as text
\* The record lists that are serialized and extracted again: a record is one
\* of the two plain objects or an object whose string value holds the
\* characters given (no white space, no quote).
MaxItems == 2
StringContents ==
    {<< >>, <<"w">>, <<"]", "[">>, <<SchemaClose>>, <<SchemaOpen, "w">>,
     <<SchemaOpen, "w", SchemaClose>>, <<SchemaOpen, "[", "]", SchemaClose>>,
     <<FenceOpen, "w", FenceClose>>}
JsonItems ==
    {<<"{a}">>, <<"{b}">>} \cup {<<StrObjOpen>> \o c \o <<StrObjClose>> : c \in StringContents}

RECURSIVE JsonLists(_)
JsonLists(n) ==
    IF n = 0 THEN {<< >>}
    ELSE LET shorter == JsonLists(n - 1)
         IN  shorter \cup {Append(l, e) : l \in {x \in shorter : Len(x) = n - 1}, e \in JsonItems}

\* json.dumps(list, separators=(item_separator, ...)): "," as written in the
\* repository, ", " by default
ItemSeparators == {<<",">>, <<",", Ws>>}
RECURSIVE join(_, _, _)
join(list, n, item_separator) ==
    IF n = 0 THEN << >>
    ELSE IF n = 1 THEN list[1]
    ELSE join(list, n - 1, item_separator) \o item_separator \o list[n]
json_dumps(list, item_separator) == <<"[">> \o join(list, Len(list), item_separator) \o <<"]">>

InitRoundTrip ==
    /\ raw \in {json_dumps(l, sep) : l \in JsonLists(MaxItems), sep \in ItemSeparators}
    /\ prompt = NoPrompt
    /\ adapter = [cls |-> "Base", model_name |-> "m1"]
    /\ ctorError = "ok"
    /\ ctorMissing = FALSE
    /\ pc = "idle"
    /\ attempt = 0
    /\ outcomes = << >>
    /\ waits = << >>
    /\ received = << >>
    /\ result = NoResult
    /\ calls = 0
    /\ now = 0
    /\ files = << >>
    /\ archiveLog = << >>
    /\ records = << >>
    /\ names = <<"", "">>
    /\ report = NoReport
    /\ comparison_fields = AllFields
    /\ checked = NoCheck

NextRoundTrip == ProcessResponse

SpecRoundTrip == InitRoundTrip /\ [][NextRoundTrip]_vars

\* ------------------------------------------------------- prompt compilation
\* A prompt is a sequence of lexemes; the placeholder {{TRANSACTION}} is the
\* three lexemes "{{", "TRANSACTION", "}}".
MaxTemplate == 6
PromptTok == {"{{", "TRANSACTION", "}}", "x"}
TransactionToken == <<"{{", "TRANSACTION", "}}">>

RECURSIVE PromptsUpTo(_)
PromptsUpTo(n) ==
    IF n = 0 THEN {<< >>}
    ELSE LET shorter == PromptsUpTo(n - 1)
         IN  shorter \cup {Append(t, c) : t \in {x \in shorter : Len(x) = n - 1}, c \in PromptTok}
Payloads ==
    {<< >>, <<"x">>, TransactionToken, <<"TRANSACTION", "}}">>, <<"{{">>, <<"}}", "x", "{{">>}

starts_at(s, i, old) == i + Len(old) - 1 <= Len(s) /\ SubSeq(s, i, i + Len(old) - 1) = old

\* str.replace(old, new): the occurrences of old are taken from left to
\* right in the original string; what has been substituted is not rescanned
RECURSIVE replace_from(_, _, _, _)
replace_from(s, i, old, new) ==
    IF i > Len(s) THEN << >>
    ELSE IF starts_at(s, i, old) THEN new \o replace_from(s, i + Len(old), old, new)
    ELSE <<s[i]>> \o replace_from(s, i + 1, old, new)

\* variant: str.replace(old, new, 1)
replace_first_only(s, old, new) ==
    LET at == {i \in 1..Len(s) : starts_at(s, i, old)}
    IN  IF at = {} THEN s
        ELSE SubSeq(s, 1, Least(at) - 1) \o new
                \o SubSeq(s, Least(at) + Len(old), Len(s))

replace(s, old, new) == replace_from(s, 1, old, new)

InitPrompt ==
    /\ \E t \in PromptsUpTo(MaxTemplate), payload \in Payloads :
          prompt = [system_prompt |-> t, user_prompt_content |-> payload,
                    compiled |-> FALSE, final_system_prompt |-> << >>]
    /\ raw = << >>
    /\ adapter = NoAdapter
    /\ ctorError = ""
    /\ ctorMissing = FALSE
    /\ pc = "idle"
    /\ attempt = 0
    /\ outcomes = << >>
    /\ waits = << >>
    /\ received = << >>
    /\ result = NoResult
    /\ calls = 0
    /\ now = 0
    /\ files = << >>
    /\ archiveLog = << >>
    /\ records = << >>
    /\ names = <<"", "">>
    /\ report = NoReport
    /\ comparison_fields = AllFields
    /\ checked = NoCheck

\* final_system_prompt = self.system_prompt.replace("{{TRANSACTION}}", ...)
CompilePrompt ==
    /\ ~prompt.compiled
    /\ prompt' = [prompt EXCEPT
            !.compiled = TRUE,
            !.final_system_prompt =
                replace(prompt.system_prompt, TransactionToken, prompt.user_prompt_content)]
    /\ UNCHANGED <<adapter, ctorError, ctorMissing, pc, callVars, calls, archiveVars, raw,
                   alignVars>>

NextPrompt == CompilePrompt

SpecPrompt == InitPrompt /\ [][NextPrompt]_vars

\* ------------------------------------------------------ alignment statistics
\* A record is a mapping; Absent marks a key the mapping does not have and
\* Null a key whose value is null.  "id" is the dialogue number column and
\* "submitter" the submitter column of the table.
Absent == "ABSENT"
Null == "NULL"
None == "None"
Placeholder == "N/A"

COMPARISON_FIELDS == comparison_fields
FieldSet == {COMPARISON_FIELDS[i] : i \in DOMAIN COMPARISON_FIELDS}

EmptyRecord == [id |-> Absent, submitter |-> Absent, f1 |-> Absent, f2 |-> Absent]

\* dict.get(key) and dict.get(key, default)
get(rec, key) == IF rec[key] \in {Absent, Null} THEN None ELSE rec[key]
get_default(rec, key, default) ==
    IF rec[key] = Absent THEN default
    ELSE IF rec[key] = Null THEN None
    ELSE rec[key]

\* variant: the two sides compared after the placeholder default of the
\* mismatch report has been substituted for a missing key
alignment_check_placeholder(field_name, human_eval, ai_eval) ==
    get_default(human_eval, field_name, Placeholder)
        = get_default(ai_eval, field_name, Placeholder)

alignment_check(field_name, human_eval, ai_eval) ==
    LET human_value == get(human_eval, field_name)
        ai_value == get(ai_eval, field_name)
    IN  IF human_value = None /\ ai_value = None THEN TRUE
        ELSE IF human_value = None \/ ai_value = None THEN FALSE
        ELSE human_value = ai_value

\* round(numerator / denominator * 100, 2), in hundredths of a percent
\* (10000 is 100.00); round() rounds a tie to the even neighbour.
round_rate(numerator, denominator) ==
    LET q == (numerator * 10000) \div denominator
        r == (numerator * 10000) % denominator
    IN  IF 2 * r > denominator THEN q + 1
        ELSE IF 2 * r < denominator THEN q
        ELSE IF q % 2 = 0 THEN q ELSE q + 1

\* variant: the first record of a role is kept, later ones are ignored
group_record_first_wins(dialog_data, record, human_expert_name, ai_evaluator_name) ==
    LET dialog_id == get(record, "id")
        known == \E k \in DOMAIN dialog_data : dialog_data[k].id = dialog_id
        dd == IF known THEN dialog_data
              ELSE Append(dialog_data,
                          [id |-> dialog_id, human |-> EmptyRecord, ai |-> EmptyRecord])
        k == CHOOSE k \in DOMAIN dd : dd[k].id = dialog_id
    IN  IF dialog_id = None THEN dialog_data
        ELSE IF get(record, "submitter") = human_expert_name
             THEN IF dd[k].human = EmptyRecord THEN [dd EXCEPT ![k].human = record] ELSE dd
        ELSE IF get(record, "submitter") = ai_evaluator_name
             THEN IF dd[k].ai = EmptyRecord THEN [dd EXCEPT ![k].ai = record] ELSE dd
        ELSE dd

\* The grouping loop: dialog_data keeps its groups in order of first
\* appearance; a later record of the same role replaces the earlier one.
group_record(dialog_data, record, human_expert_name, ai_evaluator_name) ==
    LET dialog_id == get(record, "id")
        known == \E k \in DOMAIN dialog_data : dialog_data[k].id = dialog_id
        dd == IF known THEN dialog_data
              ELSE Append(dialog_data,
                          [id |-> dialog_id, human |-> EmptyRecord, ai |-> EmptyRecord])
        k == CHOOSE k \in DOMAIN dd : dd[k].id = dialog_id
    IN  IF dialog_id = None THEN dialog_data
        ELSE IF get(record, "submitter") = human_expert_name
             THEN [dd EXCEPT ![k].human = record]
        ELSE IF get(record, "submitter") = ai_evaluator_name
             THEN [dd EXCEPT ![k].ai = record]
        ELSE dd

RECURSIVE group_records(_, _, _, _)
group_records(recs, n, human_expert_name, ai_evaluator_name) ==
    IF n = 0 THEN << >>
    ELSE group_record(group_records(recs, n - 1, human_expert_name, ai_evaluator_name),
                      recs[n], human_expert_name, ai_evaluator_name)

\* "if not data[human] or not data[ai]: continue"
\* variant: a group with a record of either role is compared
compared_either_role(data) == data.human # EmptyRecord \/ data.ai # EmptyRecord

compared(data) == data.human # EmptyRecord /\ data.ai # EmptyRecord

\* variant: the field loop left at the first field that does not match
matched_fields_until_mismatch(data) ==
    {COMPARISON_FIELDS[i] : i \in {k \in DOMAIN COMPARISON_FIELDS :
        \A j \in 1..k : alignment_check(COMPARISON_FIELDS[j], data.human, data.ai)}}

matched_fields(data) == {f \in FieldSet : alignment_check(f, data.human, data.ai)}

\* variant: the reference value reported in both value positions
mismatches_of_reference_twice(data) ==
    LET differing == SelectSeq(COMPARISON_FIELDS,
                               LAMBDA f : ~alignment_check(f, data.human, data.ai))
    IN  [i \in DOMAIN differing |->
            <<data.id, differing[i],
              get_default(data.human, differing[i], Placeholder),
              get_default(data.human, differing[i], Placeholder)>>]

mismatches_of(data) ==
    LET differing == SelectSeq(COMPARISON_FIELDS,
                               LAMBDA f : ~alignment_check(f, data.human, data.ai))
    IN  [i \in DOMAIN differing |->
            <<data.id, differing[i],
              get_default(data.human, differing[i], Placeholder),
              get_default(data.ai, differing[i], Placeholder)>>]

\* variant: the mismatch list kept from the call before
mismatches_start_kept == IF report.computed THEN report.mismatches ELSE << >>

\* "mismatches = []": the list every call starts from
mismatches_start == << >>

RECURSIVE all_mismatches(_, _)
all_mismatches(dialog_data, n) ==
    IF n = 0 THEN mismatches_start
    ELSE all_mismatches(dialog_data, n - 1)
            \o (IF compared(dialog_data[n]) THEN mismatches_of(dialog_data[n]) ELSE << >>)

RECURSIVE count_matches(_, _)
count_matches(dialog_data, n) ==
    IF n = 0 THEN 0
    ELSE count_matches(dialog_data, n - 1)
            + (IF compared(dialog_data[n]) THEN Cardinality(matched_fields(dialog_data[n])) ELSE 0)

\* variant: every group taken into the comparison loop
ComparedGroups_every_group(dialog_data) == DOMAIN dialog_data

ComparedGroups(dialog_data) == {k \in DOMAIN dialog_data : compared(dialog_data[k])}

\* denominator of the per-field rates: len(dialog_data)
field_denominator(dialog_data) == Len(dialog_data)

\* variant: the quotient taken the other way round
dialog_rate_inverted(matches, dialog_comparisons) ==
    IF matches > 0 THEN round_rate(dialog_comparisons, matches) ELSE 0

\* "if dialog_comparisons > 0: ... round(...)": the entry stays 0 otherwise
dialog_rate(matches, dialog_comparisons) ==
    IF dialog_comparisons > 0 THEN round_rate(matches, dialog_comparisons) ELSE 0

\* variant: nothing compared counts as full agreement
overall_rate_vacuous_full(total_matches, total_comparisons) ==
    IF total_comparisons > 0 THEN round_rate(total_matches, total_comparisons) ELSE 10000

\* "round(...) if total_comparisons > 0 else 0"
overall_rate(total_matches, total_comparisons) ==
    IF total_comparisons > 0 THEN round_rate(total_matches, total_comparisons) ELSE 0

\* "round(...) if len(dialog_data) > 0 else 0"
field_rate(matches, dialog_data) ==
    IF Len(dialog_data) > 0 THEN round_rate(matches, field_denominator(dialog_data)) ELSE 0

calculate_alignment_stats_full(recs, human_expert_name, ai_evaluator_name) ==
    LET dialog_data == group_records(recs, Len(recs), human_expert_name, ai_evaluator_name)
        groups == ComparedGroups(dialog_data)
        total_comparisons == Cardinality(groups) * Len(COMPARISON_FIELDS)
        total_matches == count_matches(dialog_data, Len(dialog_data))
        field_matches == [f \in FieldSet |->
            Cardinality({k \in groups : f \in matched_fields(dialog_data[k])})]
        group_of(id) == CHOOSE k \in groups : dialog_data[k].id = id
    IN  [computed |-> TRUE,
         overall_match_rate |-> overall_rate(total_matches, total_comparisons),
         dialog_matches |->
            [id \in {dialog_data[k].id : k \in groups} |->
                dialog_rate(Cardinality(matched_fields(dialog_data[group_of(id)])),
                            Len(COMPARISON_FIELDS))],
         field_match_rates |->
            [f \in FieldSet |-> field_rate(field_matches[f], dialog_data)],
         mismatches |-> all_mismatches(dialog_data, Len(dialog_data)),
         dialog_data |-> dialog_data]

\* the inputs of the alignment runs
DialogueIds == {Absent, "1", "2"}
Submitters == {"human", "ai", "other"}
Records == [id : DialogueIds, submitter : Submitters, f1 : {"yes", "no"}, f2 : {"yes"}]

RECURSIVE RecordLists(_)
RecordLists(n) ==
    IF n = 0 THEN {<< >>}
    ELSE LET shorter == RecordLists(n - 1)
         IN  shorter \cup {Append(l, r) : l \in {x \in shorter : Len(x) = n - 1}, r \in Records}

InitAlign ==
    /\ records \in RecordLists(MaxRecords)
    /\ names = <<"human", "ai">>
    /\ report = NoReport
    /\ comparison_fields \in FieldLists
    /\ checked = NoCheck
    /\ adapter = NoAdapter
    /\ ctorError = ""
    /\ ctorMissing = FALSE
    /\ pc = "idle"
    /\ attempt = 0
    /\ outcomes = << >>
    /\ waits = << >>
    /\ received = << >>
    /\ result = NoResult
    /\ calls = 0
    /\ now = 0
    /\ files = << >>
    /\ archiveLog = << >>
    /\ raw = << >>
    /\ prompt = NoPrompt

CalculateAlignment ==
    /\ ~report.computed
    /\ report' = calculate_alignment_stats_full(records, names[1], names[2])
    /\ UNCHANGED <<records, names, comparison_fields, checked, adapter, ctorError,
                   ctorMissing, pc, callVars, calls, archiveVars, raw, prompt>>

NextAlign == CalculateAlignment

SpecAlign == InitAlign /\ [][NextAlign]_vars

\* ---------------------------------------- one dialogue, every kind of value
\* A field is missing, null, a string (the placeholder text included) or a
\* list, written here by its literal: "[a, b]" and "[b, a]" hold the same
\* elements in a different order.
FieldValues == {Absent, Null, "yes", "no", Placeholder, "[a, b]", "[b, a]"}
PairRecords ==
    [id : {"1"}, submitter : {"human", "ai"}, f1 : FieldValues, f2 : FieldValues]

InitPair ==
    /\ records \in {<<r1, r2>> : r1 \in PairRecords, r2 \in PairRecords}
    /\ names = <<"human", "ai">>
    /\ report = NoReport
    /\ comparison_fields = AllFields
    /\ checked = NoCheck
    /\ adapter = NoAdapter
    /\ ctorError = ""
    /\ ctorMissing = FALSE
    /\ pc = "idle"
    /\ attempt = 0
    /\ outcomes = << >>
    /\ waits = << >>
    /\ received = << >>
    /\ result = NoResult
    /\ calls = 0
    /\ now = 0
    /\ files = << >>
    /\ archiveLog = << >>
    /\ raw = << >>
    /\ prompt = NoPrompt

\* alignment_check(field, reference record, candidate record)
AlignmentCheck ==
    /\ checked = NoCheck
    /\ \E f \in FieldSet :
        checked' = [field |-> f, match |-> alignment_check(f, records[1], records[2])]
    /\ UNCHANGED <<records, names, report, comparison_fields, adapter, ctorError,
                   ctorMissing, pc, callVars, calls, archiveVars, raw, prompt>>

\* calculate_alignment_stats_full called once more on the same arguments
CalculateAgain ==
    /\ report.computed
    /\ calls = 0
    /\ calls' = 1
    /\ report' = calculate_alignment_stats_full(records, names[1], names[2])
    /\ UNCHANGED <<records, names, comparison_fields, checked, adapter, ctorError,
                   ctorMissing, pc, callVars, archiveVars, raw, prompt>>

NextPair == AlignmentCheck \/ CalculateAlignment \/ CalculateAgain

SpecPair == InitPair /\ [][NextPair]_vars

\* =================================================================== claims
CallOver == pc \in {"returned", "raised"}
Last(s) == s[Len(s)]

\* C1: a call whose backend raised a transient transport error on every
\* attempt invoked the backend exactly StopAfterAttempt (3) times and ended
\* by raising the last transient failure.
C1_RetryBound ==
    (CallOver /\ outcomes # << >> /\ \A i \in DOMAIN outcomes : outcomes[i] \in Transient)
        => /\ invocations = StopAfterAttempt
           /\ pc = "raised"
           /\ result = Raised(Last(outcomes))

\* C2: a failure that is not a transient transport error is never retried:
\* it is the last invocation of its call, the call has returned, and no
\* backoff sleep follows it (so a call that fails this way at once has
\* invoked the backend exactly once and slept not at all).
C2_PermanentNeverRetried ==
    \A i \in DOMAIN outcomes :
        outcomes[i] \in Permanent
            => /\ i = Len(outcomes)
               /\ pc = "returned"
               /\ Len(waits) = i - 1
               /\ (i = 1 => invocations = 1 /\ waits = << >>)

C2_Witness ==
    /\ adapter.cls = "Base"
    /\ pc = "returned"
    /\ outcomes = <<"AuthError">>
    /\ waits = << >>

\* C3: when the invocation fails with a non-retryable failure the call does
\* not raise; it returns a list of exactly one error record with an error key.
C3_PermanentBecomesErrorRecord ==
    (outcomes # << >> /\ Last(outcomes) \in Permanent)
        => /\ pc = "returned"
           /\ result.kind = "error"
           /\ result.error = ErrApi

C3_Witness ==
    /\ adapter.cls = "Base"
    /\ outcomes = <<"Timeout", "AuthError">>
    /\ result = ErrorRecord(ErrApi, RawException)

ProseTexts == {<< >>, <<"w">>, <<Ws>>}
TagAndFenceTexts ==
    {pre \o TaggedA \o mid \o FencedB \o post : pre \in ProseTexts, mid \in ProseTexts, post \in ProseTexts}
        \cup {pre \o FencedB \o mid \o TaggedA \o post : pre \in ProseTexts, mid \in ProseTexts, post \in ProseTexts}

C5_TagsBeforeFence ==
    (pc = "returned" /\ raw \in TagAndFenceTexts) => result = ParsedList(ArrA)

\* C6: every raw response a call received has been handed to the archiver in
\* that call by the time the call returns its extraction outcome.
C6_ArchivedBeforeReported ==
    pc = "returned" =>
        \A i \in DOMAIN received :
            \E j \in DOMAIN archiveLog :
                archiveLog[j].call = calls /\ archiveLog[j].text = received[i]

\* C7: any two archive operations that wrote a file wrote distinct files, so
\* no archived raw response is overwritten by a later one.
C7_ArchiveNamesUnique ==
    \A i \in DOMAIN archiveLog : \A j \in DOMAIN archiveLog :
        (i # j /\ archiveLog[i].ok /\ archiveLog[j].ok)
            => archiveLog[i].name # archiveLog[j].name

\* C8: an archive write that fails changes nothing in what the call returns:
\* the call returns what it returns when the write succeeds, and does not raise.
C8_ArchiverFailureHarmless ==
    \A j \in DOMAIN archiveLog :
        (archiveLog[j].call = calls /\ pc # "idle")
            => /\ pc = "returned"
               /\ result = process_response(archiveLog[j].text, TRUE)

C8_Witness ==
    /\ pc = "returned"
    /\ archiveLog # << >>
    /\ Last(archiveLog).call = calls
    /\ ~Last(archiveLog).ok
    /\ Last(archiveLog).name \notin DOMAIN files
    /\ result = ParsedList(ArrA)

\* The statistics of a report: everything but the grouped input.
Stats(rep) == <<rep.overall_match_rate, rep.dialog_matches, rep.field_match_rates,
                rep.mismatches>>

\* the dialogue ids whose group lacks a reference or a candidate record
LackingRole(rep) ==
    {rep.dialog_data[k].id : k \in {j \in DOMAIN rep.dialog_data : ~compared(rep.dialog_data[j])}}

WithoutDialogue(recs, id) == SelectSeq(recs, LAMBDA r : get(r, "id") # id)

\* C9: a dialogue group that lacks a reference or a candidate record is left
\* out of all statistics: no per-dialogue rate, no mismatch entry, and the
\* report is the one obtained with all records of that dialogue removed.
C9_LackingRoleExcluded ==
    report.computed =>
        \A id \in LackingRole(report) :
            /\ id \notin DOMAIN report.dialog_matches
            /\ \A i \in DOMAIN report.mismatches : report.mismatches[i][1] # id
            /\ Stats(calculate_alignment_stats_full(WithoutDialogue(records, id),
                                                    names[1], names[2])) = Stats(report)

\* C10: the per-field match rate is the number of compared dialogues in which
\* the field matched, over the number of compared dialogue groups, times 100.
C10_FieldRateOverComparedGroups ==
    report.computed =>
        LET groups == ComparedGroups(report.dialog_data)
        IN  \A f \in FieldSet :
                report.field_match_rates[f] =
                    IF groups = {} THEN 0
                    ELSE round_rate(
                            Cardinality({k \in groups : f \in matched_fields(report.dialog_data[k])}),
                            Cardinality(groups))

\* C11: alignment_check(field, reference, candidate) is true exactly when
\* neither side has a value for the field (key missing or null, in any
\* combination) or both have one and the two values are equal (a list equals
\* only a list with the same elements in the same order); it is false when
\* exactly one side has a value.
HasValue(rec, f) == rec[f] \notin {Absent, Null}
C11_AlignmentCheckDecision ==
    checked # NoCheck =>
        LET f == checked.field
            reference == records[1]
            candidate == records[2]
        IN  /\ checked.match =
                   \/ ~HasValue(reference, f) /\ ~HasValue(candidate, f)
                   \/ /\ HasValue(reference, f)
                      /\ HasValue(candidate, f)
                      /\ reference[f] = candidate[f]
            /\ (HasValue(reference, f) # HasValue(candidate, f)) => ~checked.match
C11_Witness ==
    /\ checked # NoCheck
    /\ checked.match
    /\ records[1][checked.field] = Absent
    /\ records[2][checked.field] = Null

\* C12: exchanging the reference and the candidate submitter ids on the same
\* records gives the same overall rate, the same per-dialogue rates and the
\* same per-field rates (the same fields match), and the same mismatch
\* entries with the reference value and the candidate value exchanged.
Swapped == calculate_alignment_stats_full(records, names[2], names[1])
C12_SwapSymmetry ==
    report.computed =>
        /\ Swapped.overall_match_rate = report.overall_match_rate
        /\ Swapped.dialog_matches = report.dialog_matches
        /\ Swapped.field_match_rates = report.field_match_rates
        /\ Len(Swapped.mismatches) = Len(report.mismatches)
        /\ \A i \in DOMAIN report.mismatches :
              Swapped.mismatches[i] = <<report.mismatches[i][1], report.mismatches[i][2],
                                        report.mismatches[i][4], report.mismatches[i][3]>>
C12_Witness ==
    /\ report.computed
    /\ Len(report.mismatches) = 1
    /\ report.mismatches[1][3] # report.mismatches[1][4]
    /\ Swapped.mismatches[1][3] = report.mismatches[1][4]

\* The qualifying dialogues of the input, read off the record list itself: a
\* dialogue id that has a record by the reference submitter and one by the
\* candidate submitter; the record of a role is the last one in the list.
RecordsOf(id, who) ==
    {i \in DOMAIN records : records[i].id = id /\ records[i].submitter = who}
QualifyingIds ==
    {id \in {records[i].id : i \in DOMAIN records} :
        id # Absent /\ RecordsOf(id, names[1]) # {} /\ RecordsOf(id, names[2]) # {}}
ReferenceOf(id) ==
    records[CHOOSE i \in RecordsOf(id, names[1]) : \A j \in RecordsOf(id, names[1]) : j <= i]
CandidateOf(id) ==
    records[CHOOSE i \in RecordsOf(id, names[2]) : \A j \in RecordsOf(id, names[2]) : j <= i]
MatchedFieldsOf(id) ==
    {f \in FieldSet : alignment_check(f, ReferenceOf(id), CandidateOf(id))}
MatchPairs == {p \in QualifyingIds \X FieldSet : p[2] \in MatchedFieldsOf(p[1])}
\* rate is part / whole * 100 to two decimals (rates are in hundredths)
IsRate(rate, part, whole) ==
    LET d == rate * whole - part * 10000
    IN  2 * (IF d < 0 THEN -d ELSE d) <= whole

\* C13: the overall rate is total matches / total comparisons * 100 (to two
\* decimals), where total comparisons is the number of qualifying dialogues
\* times the number of fields and total matches the number of (qualifying
\* dialogue, field) pairs alignment_check accepts.  A single qualifying
\* dialogue equal on every field gives 100 and no mismatch entry; a single
\* qualifying dialogue with one field and differing values gives 0 and
\* exactly one entry (dialogue id, field, reference value, candidate value).
C13_OverallRate ==
    report.computed =>
        LET total_comparisons == Cardinality(QualifyingIds) * Len(comparison_fields)
            total_matches == Cardinality(MatchPairs)
        IN  /\ total_comparisons > 0 =>
                  IsRate(report.overall_match_rate, total_matches, total_comparisons)
            /\ (total_comparisons > 0 /\ Cardinality(QualifyingIds) = 1
                    /\ total_matches = total_comparisons) =>
                  /\ report.overall_match_rate = 10000
                  /\ report.mismatches = << >>
            /\ \A id \in QualifyingIds :
                  (QualifyingIds = {id} /\ Len(comparison_fields) = 1
                        /\ MatchedFieldsOf(id) = {}) =>
                     /\ report.overall_match_rate = 0
                     /\ report.mismatches =
                           << <<id, comparison_fields[1],
                                ReferenceOf(id)[comparison_fields[1]],
                                CandidateOf(id)[comparison_fields[1]]>> >>
C13_Witness ==
    /\ report.computed
    /\ Len(comparison_fields) = 1
    /\ QualifyingIds = {"1"}
    /\ Len(records) = MaxRecords
    /\ report.overall_match_rate = 0
    /\ Len(report.mismatches) = 1

\* C14: the per-dialogue mapping has an entry for exactly the qualifying
\* dialogues, and the rate of a dialogue is the number of its fields that
\* match divided by the number of fields, times 100 (to two decimals).
C14_DialogueRate ==
    report.computed =>
        /\ DOMAIN report.dialog_matches = QualifyingIds
        /\ \A id \in QualifyingIds :
              Len(comparison_fields) > 0 =>
                 IsRate(report.dialog_matches[id],
                        Cardinality(MatchedFieldsOf(id)), Len(comparison_fields))
C14_Witness ==
    /\ report.computed
    /\ QualifyingIds = {"1"}
    /\ \E i \in DOMAIN records : records[i].id = "2"
    /\ report.dialog_matches["1"] = 5000

\* C15: in every mismatch entry a side that has no value for the field
\* (key absent or value null) is reported as the placeholder "N/A", never as
\* null, while the decision itself uses the true values: a present "N/A"
\* string facing a side without a value is still a mismatch.
C15_PlaceholderForNoValue ==
    report.computed /\ QualifyingIds # {} =>
        LET id == CHOOSE id \in QualifyingIds : TRUE
            reference == ReferenceOf(id)
            candidate == CandidateOf(id)
            EntriesOf(f) == {i \in DOMAIN report.mismatches : report.mismatches[i][2] = f}
        IN  /\ \A i \in DOMAIN report.mismatches :
                  LET f == report.mismatches[i][2]
                  IN  /\ report.mismatches[i][3] # None
                      /\ report.mismatches[i][4] # None
                      /\ ~HasValue(reference, f) => report.mismatches[i][3] = Placeholder
                      /\ ~HasValue(candidate, f) => report.mismatches[i][4] = Placeholder
            /\ \A f \in FieldSet :
                  (reference[f] = Placeholder /\ ~HasValue(candidate, f)) => EntriesOf(f) # {}

\* C16: every variant follows one extraction contract: what a variant's
\* analyze path makes of a raw text is what the shared extractor (schema tags,
\* json fence, bracket slice, parse) makes of the same text.
C16_VariantsShareExtractor ==
    pc = "returned" =>
        result \in {process_response(raw, ioOK) : ioOK \in BOOLEAN}

\* C17 (as claimed): the wait before retry attempt n+1 (n = 1, 2) is
\* min(max_wait, base * 2^(n-1)) with base 4 and max_wait 10, that is 4 after
\* the first failed attempt and 8 after the second; no wait exceeds max_wait
\* and no wait follows the final attempt.
C17_BackoffDoubles ==
    /\ \A n \in DOMAIN waits :
          /\ waits[n] = Min(10, 4 * Pow2(n - 1))
          /\ waits[n] <= 10
    /\ Len(waits) <= StopAfterAttempt - 1
    /\ outcomes # << >> => Len(waits) = Len(outcomes) - 1

\* C17 (amended): the wait before retry attempt n+1 (n = 1, 2) is
\* max(4, min(10, 2^(n-1))) seconds, that is 4 after the first failed attempt
\* and 4 after the second; no wait exceeds 10 and no wait follows the final
\* attempt.
C17_BackoffFloor ==
    /\ \A n \in DOMAIN waits :
          /\ waits[n] = 4
          /\ waits[n] <= 10
    /\ Len(waits) <= StopAfterAttempt - 1
    /\ outcomes # << >> => Len(waits) = Len(outcomes) - 1
C17_Witness ==
    /\ pc = "raised"
    /\ Len(outcomes) = StopAfterAttempt
    /\ waits = <<4, 4>>

\* C18: for every list of records, whatever its field values, serializing
\* the list to JSON and giving the text to the extractor returns a list
\* equal to it.
C18_RoundTrip ==
    pc = "returned" =>
        \A l \in JsonLists(MaxItems) : \A sep \in ItemSeparators :
            raw = json_dumps(l, sep) => result = ParsedList(json_dumps(l, <<",">>))

\* C19: a rate whose denominator is 0 is 0 and nothing fails: with no
\* qualifying dialogue the overall rate and every per-field rate are 0, and
\* with an empty comparison-field list the rate of every qualifying dialogue
\* (and the overall rate) is 0.
C19_ZeroDenominator ==
    report.computed =>
        /\ QualifyingIds = {} =>
              /\ report.overall_match_rate = 0
              /\ DOMAIN report.field_match_rates = FieldSet
              /\ \A f \in FieldSet : report.field_match_rates[f] = 0
        /\ comparison_fields = << >> =>
              /\ report.overall_match_rate = 0
              /\ QualifyingIds \subseteq DOMAIN report.dialog_matches
              /\ \A id \in QualifyingIds : report.dialog_matches[id] = 0
C19_Witness ==
    /\ report.computed
    /\ comparison_fields = << >>
    /\ QualifyingIds = {"1"}
    /\ report.dialog_matches["1"] = 0
    /\ report.overall_match_rate = 0

\* C20: constructing an adapter of any variant with an empty credential,
\* model id or system prompt fails at construction with a configuration error
\* (ValueError): no adapter object is produced and no backend invocation or
\* retry ever takes place for it.
C20_MissingInputFailsFast ==
    ctorMissing =>
        /\ ctorError = "ValueError"
        /\ adapter = NoAdapter
        /\ pc = "idle"
        /\ calls = 0
        /\ invocations = 0
        /\ waits = << >>

\* C21: prompt compilation returns the template with every occurrence of the
\* placeholder replaced by the payload in one pass: each lexeme outside an
\* occurrence is kept, shifted by the occurrences before it, each occurrence
\* is the payload, and nothing else is in the result (so a placeholder inside
\* or across the payload is not expanded again); a template without the
\* placeholder comes back verbatim.
Occurrences(t) == {i \in 1..Len(t) : i + 2 <= Len(t) /\ SubSeq(t, i, i + 2) = TransactionToken}
C21_PromptCompilation ==
    prompt.compiled =>
        LET t == prompt.system_prompt
            payload == prompt.user_prompt_content
            final == prompt.final_system_prompt
            grow == Len(payload) - 3
            shift(j) == Cardinality({i \in Occurrences(t) : i < j}) * grow
            inside(j) == \E i \in Occurrences(t) : i <= j /\ j <= i + 2
        IN  /\ Len(final) = Len(t) + Cardinality(Occurrences(t)) * grow
            /\ \A j \in 1..Len(t) : ~inside(j) => final[j + shift(j)] = t[j]
            /\ \A i \in Occurrences(t) : \A k \in 1..Len(payload) :
                  final[i + shift(i) + k - 1] = payload[k]
            /\ Occurrences(t) = {} => final = t
C21_Witness ==
    /\ prompt.compiled
    /\ Occurrences(prompt.system_prompt) = {2}
    /\ prompt.user_prompt_content = <<"TRANSACTION", "}}">>
    /\ prompt.final_system_prompt = <<"{{", "TRANSACTION", "}}">>

FirstAfter(t, i, closers) == CHOOSE j \in (i + 1)..Len(t) :
    t[j] \in closers /\ \A k \in (i + 1)..(j - 1) : t[k] \notin closers
FirstOf(t, tok) == CHOOSE i \in DOMAIN t : t[i] = tok /\ \A k \in 1..(i - 1) : t[k] # tok
HasPair(t, open, closers) ==
    \E i \in DOMAIN t : \E j \in DOMAIN t : i < j /\ t[i] = open /\ t[j] \in closers
Enclosed(t, open, closers) ==
    SubSeq(t, FirstOf(t, open) + 1, FirstAfter(t, FirstOf(t, open), closers) - 1)
HasTags(t) == HasPair(t, SchemaOpen, {SchemaClose})
HasFence(t) == HasPair(t, FenceOpen, {FenceClose, FenceOpen})
IsArrayText(c) == json_loads(c).ok /\ json_loads(c).isList

\* C23: the shared extractor tries tags, then json fence, then bracket slice,
\* and the first strategy that finds its marker is final: with a tag pair the
\* enclosed text is the only candidate (an enclosed text that is not a JSON
\* array gives an error record, whatever fenced or bracketed array stands
\* elsewhere), and with a fence and no tag pair the fence contents are.
C23_FirstStrategyIsFinal ==
    (pc = "returned" /\ adapter.cls = "Base") =>
        /\ HasTags(raw) =>
              LET candidate == strip(Enclosed(raw, SchemaOpen, {SchemaClose}))
              IN  /\ result = parse_candidate(candidate, raw)
                  /\ ~IsArrayText(candidate) => result.kind = "error"
        /\ (~HasTags(raw) /\ HasFence(raw)) =>
              LET candidate == strip(Enclosed(raw, FenceOpen, {FenceClose, FenceOpen}))
              IN  /\ result = parse_candidate(candidate, raw)
                  /\ ~IsArrayText(candidate) => result.kind = "error"
C23_Witness ==
    /\ pc = "returned"
    /\ adapter.cls = "Base"
    /\ raw = TaggedBad \o FencedB \o ArrA
    /\ result = ErrorRecord(ErrParse, RawText(raw))

\* C24: when the text has neither a tag pair nor a json fence, the candidate
\* is the part of the trimmed text from its first "[" through its last "]"
\* inclusive if both exist and the last "]" is behind the first "[", and the
\* whole trimmed text otherwise; an array with prose (words, white space)
\* before and after it is returned as that array.
C24_BracketSlice ==
    (pc = "returned" /\ adapter.cls = "Base" /\ ~HasTags(raw) /\ ~HasFence(raw)) =>
        LET t == strip(raw)
            opens == {i \in DOMAIN t : t[i] = "["}
            closes == {i \in DOMAIN t : t[i] = "]"}
            first == CHOOSE i \in opens : \A k \in opens : i <= k
            last == CHOOSE j \in closes : \A k \in closes : k <= j
            candidate == IF opens # {} /\ closes # {} /\ last > first
                         THEN SubSeq(t, first, last)
                         ELSE t
        IN  /\ result = parse_candidate(candidate, raw)
            /\ \A pre \in ProseTexts, post \in ProseTexts, arr \in {ArrA, ArrB} :
                  raw = pre \o arr \o post => result = ParsedList(arr)
C24_Witness ==
    /\ pc = "returned"
    /\ adapter.cls = "Base"
    /\ raw = <<"w">> \o ArrA \o <<"w">>
    /\ result = ParsedList(ArrA)

\* C25: when the text has no tag pair but has a fenced block marked json (its
\* first json opener is closed by three backticks), the candidate is the
\* trimmed contents of that first block, whatever "[" or "]" the prose
\* before or after the fence holds; prose, fence, array, fence, prose gives
\* that array.
FenceProse == ProseTexts \cup {<<"[">>, <<"]">>}
C25_FirstJsonFence ==
    (pc = "returned" /\ adapter.cls = "Base" /\ ~HasTags(raw)) =>
        LET openers == {i \in DOMAIN raw : raw[i] = FenceOpen}
            open == CHOOSE i \in openers : \A k \in openers : i <= k
            fences == {j \in DOMAIN raw : j > open /\ raw[j] \in {FenceOpen, FenceClose}}
            close == CHOOSE j \in fences : \A k \in fences : j <= k
        IN  /\ (openers # {} /\ fences # {} /\ raw[close] = FenceClose) =>
                  result = parse_candidate(strip(SubSeq(raw, open + 1, close - 1)), raw)
            /\ \A pre \in FenceProse, post \in FenceProse :
                  raw = pre \o FencedB \o post => result = ParsedList(ArrB)
C25_Witness ==
    /\ pc = "returned"
    /\ adapter.cls = "Base"
    /\ raw = <<"[">> \o FencedB \o <<"]">>
    /\ result = ParsedList(ArrB)

\* C26: every rate of a report (overall, per dialogue, per field) lies
\* between 0 and 100 inclusive, for every record list and every choice of
\* the reference and the candidate submitter (the same one twice included).
InRange(rate) == 0 <= rate /\ rate <= 10000
RatesInRange(rep) ==
    /\ InRange(rep.overall_match_rate)
    /\ \A id \in DOMAIN rep.dialog_matches : InRange(rep.dialog_matches[id])
    /\ \A f \in DOMAIN rep.field_match_rates : InRange(rep.field_match_rates[f])
C26_RatesInRange ==
    report.computed =>
        /\ RatesInRange(report)
        /\ \A h \in Submitters, a \in Submitters :
              RatesInRange(calculate_alignment_stats_full(records, h, a))
C26_Witness ==
    /\ report.computed
    /\ report.overall_match_rate = 10000
    /\ \E f \in DOMAIN report.field_match_rates : report.field_match_rates[f] = 5000
    /\ \E id \in DOMAIN report.dialog_matches : report.dialog_matches[id] = 10000

\* C27: every (qualifying dialogue, comparison field) pair is counted once,
\* as one match or as one mismatch entry: the matches and the mismatch
\* entries add up to (qualifying dialogues) x (fields), the entries are the
\* pairs that do not match, each once, the rates are those of the matches
\* counted pair by pair (the per-field counts add up to the total), and the
\* mismatch list is empty exactly when every comparison matched.
MismatchPairs == (QualifyingIds \X FieldSet) \ MatchPairs
FieldCount(f) == Cardinality({id \in QualifyingIds : f \in MatchedFieldsOf(id)})
RECURSIVE SumFieldCounts(_)
SumFieldCounts(n) ==
    IF n = 0 THEN 0 ELSE FieldCount(comparison_fields[n]) + SumFieldCounts(n - 1)
C27_Accounting ==
    report.computed =>
        LET total_comparisons == Cardinality(QualifyingIds) * Len(comparison_fields)
            entry_pair(i) == <<report.mismatches[i][1], report.mismatches[i][2]>>
        IN  /\ Cardinality(MatchPairs) + Len(report.mismatches) = total_comparisons
            /\ {entry_pair(i) : i \in DOMAIN report.mismatches} = MismatchPairs
            /\ \A i \in DOMAIN report.mismatches : \A j \in DOMAIN report.mismatches :
                  entry_pair(i) = entry_pair(j) => i = j
            /\ total_comparisons > 0 =>
                  IsRate(report.overall_match_rate, Cardinality(MatchPairs), total_comparisons)
            /\ \A f \in FieldSet :
                  Len(report.dialog_data) > 0 =>
                     IsRate(report.field_match_rates[f], FieldCount(f), Len(report.dialog_data))
            /\ SumFieldCounts(Len(comparison_fields)) = Cardinality(MatchPairs)
            /\ (report.mismatches = << >>) = (Cardinality(MatchPairs) = total_comparisons)
C27_Witness ==
    /\ report.computed
    /\ Len(comparison_fields) = 2
    /\ Cardinality(QualifyingIds) = 1
    /\ Cardinality(MatchPairs) = 1
    /\ Len(report.mismatches) = 1

\* C28: when the backend raised transient errors on the first k-1 attempts of
\* a call and responded on attempt k, then k <= 3, the call has returned the
\* extraction of that response, the backend has been invoked exactly k times
\* in the call, and no invocation follows the response.
ExtractionOf(text) ==
    CASE adapter.cls = "Gemini" -> {gemini_inline_extract(text)}
      [] adapter.cls = "Qwen" -> {qwen_inline_extract(text)}
      [] OTHER -> {process_response(text, ioOK) : ioOK \in BOOLEAN}
C28_SuccessOnAttemptK ==
    \A k \in DOMAIN outcomes :
        (outcomes[k] = "" /\ \A i \in 1..(k - 1) : outcomes[i] \in Transient) =>
            /\ k <= 3
            /\ k = Len(outcomes)
            /\ invocations = k
            /\ attempt = k
            /\ pc = "returned"
            /\ Len(received) = 1
            /\ result \in ExtractionOf(received[1])
C28_Witness ==
    /\ adapter.cls = "Base"
    /\ outcomes = <<"Timeout", "ConnectionError", "">>
    /\ received = <<ArrA>>
    /\ result = ParsedList(ArrA)
    /\ pc = "returned"

\* C29: every backend variant can be constructed: with a non-empty
\* credential, model identifier and system prompt, and a vendor client that
\* initialises, construction succeeds and yields an adapter whose analyze
\* operation can be called.
C29_VariantsConstructible ==
    (ctorError \notin {"", "ConnectionError"} /\ ~ctorMissing) =>
        /\ ctorError = "ok"
        /\ adapter # NoAdapter

\* C30: in a dialogue group one record is used per role, the last one in
\* input order of that dialogue id and submitter: the rate and the mismatch
\* entries of the dialogue are those of the two last records, and removing an
\* earlier record of the same dialogue id and submitter changes no rate and
\* no mismatch entry.  Records without a dialogue id and records of another
\* submitter are never compared: every entry and every per-dialogue rate
\* belongs to a dialogue that has a record of each role, with the values of
\* those records.
RemoveAt(recs, i) == SubSeq(recs, 1, i - 1) \o SubSeq(recs, i + 1, Len(recs))
Superseded ==
    {i \in DOMAIN records :
        /\ records[i].id # Absent
        /\ records[i].submitter \in {names[1], names[2]}
        /\ \E j \in DOMAIN records :
              j > i /\ records[j].id = records[i].id
                    /\ records[j].submitter = records[i].submitter}
EntrySet(rep) == {rep.mismatches[i] : i \in DOMAIN rep.mismatches}
Figures(rep) == <<rep.overall_match_rate, rep.dialog_matches, rep.field_match_rates,
                  EntrySet(rep)>>
C30_LastRecordPerRole ==
    report.computed =>
        /\ EntrySet(report) =
              {<<id, f, ReferenceOf(id)[f], CandidateOf(id)[f]>> :
                  id \in QualifyingIds, f \in FieldSet} \
              {<<p[1], p[2], ReferenceOf(p[1])[p[2]], CandidateOf(p[1])[p[2]]>> :
                  p \in MatchPairs}
        /\ DOMAIN report.dialog_matches = QualifyingIds
        /\ \A k \in DOMAIN report.dialog_data :
              LET id == report.dialog_data[k].id
              IN  /\ RecordsOf(id, names[1]) # {} => report.dialog_data[k].human = ReferenceOf(id)
                  /\ RecordsOf(id, names[2]) # {} => report.dialog_data[k].ai = CandidateOf(id)
        /\ \A i \in Superseded :
              Figures(calculate_alignment_stats_full(RemoveAt(records, i), names[1], names[2]))
                  = Figures(report)
C30_Witness ==
    /\ report.computed
    /\ Len(records) = 3
    /\ Superseded = {1}
    /\ records[1].f1 # records[2].f1
    /\ records[2].submitter = records[1].submitter
    /\ QualifyingIds = {"1"}
    /\ report.mismatches = << >>

====
